---- MODULE Spec2Model ----
(***************************************************************************)
(* A model of gb, a TOML driven build tool for GHDL.                       *)
(*                                                                         *)
(*   src/src/main.rs         the pipeline (validate and the stages) and    *)
(*                           the relocation of the build artifacts         *)
(*   src/src/tree_sitter.rs  the dependency resolver                       *)
(*                                                                         *)
(* Three specifications share the module:                                  *)
(*   Spec         one run of the gb executable (main / validate)           *)
(*   SpecCatalog  the line rewriting of work-obj93.cf as a pure function   *)
(*   SpecResolve  one call of generate_sources_for                         *)
(***************************************************************************)
EXTENDS Integers, Sequences, FiniteSets, TLC

(***************************************************************************)
(* Bounds of the model                                                     *)
(***************************************************************************)
\* longest `files` array of a target
MaxFiles == 2
\* most lines of a catalog given to the line rewriting
MaxLines == 2
\* most component declarations in one source file
MaxComps == 2

(***************************************************************************)
(* Strings are sequences of one-character strings.                         *)
(***************************************************************************)
PREFIX == <<"f", "i", "l", "e", " ", ".", " ", "\"">>

UpUp == <<".", ".", "/", ".", ".", "/">>

NL == "\n"

\* str::starts_with
starts_with(line, prefix) ==
    /\ Len(line) >= Len(prefix)
    /\ SubSeq(line, 1, Len(prefix)) = prefix

\* String::insert_str(idx, s): s is inserted at byte offset idx (0-based)
insert_str(string, idx, s) ==
    SubSeq(string, 1, idx) \o s \o SubSeq(string, idx + 1, Len(string))

\* a mutation of rewrite_line: the prefix is put in front of the marker
rewrite_line_at_start(line) ==
    IF starts_with(line, PREFIX) THEN insert_str(line, 0, UpUp) ELSE line

\* the body of the loop over the lines of work-obj93.cf
rewrite_line(line) ==
    IF starts_with(line, PREFIX) THEN insert_str(line, Len(PREFIX), UpUp) ELSE line

\* the loop `for line in &mut lines`
rewrite_lines(lines) == [i \in 1..Len(lines) |-> rewrite_line(lines[i])]

\* str::lines(): the text is cut after every "\n", which is not part of the
\* line; a last line without "\n" is a line, an empty rest is not
RECURSIVE str_lines_from(_, _, _)
str_lines_from(text, i, cur) ==
    IF i > Len(text)
    THEN IF cur = <<>> THEN <<>> ELSE <<cur>>
    ELSE IF text[i] = NL
         THEN <<cur>> \o str_lines_from(text, i + 1, <<>>)
         ELSE str_lines_from(text, i + 1, Append(cur, text[i]))

str_lines(text) == str_lines_from(text, 1, <<>>)

\* [String]::join("\n")
RECURSIVE join(_)
join(lines) ==
    IF lines = <<>> THEN <<>>
    ELSE IF Len(lines) = 1 THEN lines[1]
    ELSE lines[1] \o <<NL>> \o join(Tail(lines))

\* the content written to build/root/work-obj93.cf for a given work-obj93.cf
rewrite_catalog(text) == join(rewrite_lines(str_lines(text)))

(***************************************************************************)
(* Inputs of the line rewriting                                            *)
(***************************************************************************)
LineHeads ==
    { <<>>, SubSeq(PREFIX, 1, 7), PREFIX, <<" ">> \o PREFIX }

LineTails ==
    { <<>>, <<"x">>, <<"x", "\"">>, PREFIX \o <<"y">>, SubSeq(PREFIX, 2, 8) }

CatalogLines == { h \o t : h \in LineHeads, t \in LineTails }

RECURSIVE SeqsUpTo(_, _)
SeqsUpTo(S, n) ==
    IF n = 0 THEN { <<>> }
    ELSE LET shorter == SeqsUpTo(S, n - 1)
         IN  shorter \cup { Append(s, x) : s \in { t \in shorter : Len(t) = n - 1 }, x \in S }


(***************************************************************************)
(* Option<T> is a sequence of length 0 (None) or 1 (Some).                 *)
(***************************************************************************)
NoneOpt == <<>>

Some(x) == <<x>>

\* Option::or
opt_or(a, b) == IF a # NoneOpt THEN a ELSE b

Range(s) == { s[i] : i \in 1..Len(s) }

(***************************************************************************)
(* Paths of source files: a directory and a file name without its          *)
(* extension; ".." is a path without a file name.                          *)
(***************************************************************************)
SrcA == [dir |-> ".", file |-> "a"]

SrcB == [dir |-> ".", file |-> "b"]

SrcDA == [dir |-> "d", file |-> "a"]

DotDot == [dir |-> "..", file |-> ""]

SrcPaths == { SrcA, SrcB, SrcDA, DotDot }

\* a mutation of file_stem: the directory is kept
file_stem_keeps_dir(p) == IF p.file = "" THEN NoneOpt ELSE Some(p.dir \o "/" \o p.file)

\* Path::file_stem
file_stem(p) == IF p.file = "" THEN NoneOpt ELSE Some(p.file)

\* PathBuf::from(stem).with_extension("o"): the artifact is named by its stem
artifact_of(stem) == stem

\* waveform file names; an absolute one replaces the base it is joined to
VcdAbs == { "/abs.vcd" }

\* PathBuf::join
path_join(base, p) == IF p \in VcdAbs THEN p ELSE base \o "/" \o p

CliVcds == { NoneOpt, Some("cli.vcd"), Some("/abs.vcd") }

TargetVcds == { NoneOpt, Some("t.vcd") }

Viewers == { NoneOpt, Some("gtkwave"), Some("surfer") }

Commands == { "Run", "Compile", "Analyze", "Wave", "Init" }

\* the ways the manifest can stop validate before the files are looked at
ManifestErrors ==
    { "manifest file gb.toml not found in the current directory",
      "failed to parse manifest file",
      "No target was passed and no default target was set",
      "there are no provided targets; please provide them",
      "target was not found in gb.toml",
      "a files key is required for every target",
      "the files list must be an array",
      "all the files in the files list, must be listed by their path as a string" }

ManifestAbsent == "manifest file gb.toml not found in the current directory"

NoFile == <<"<no file>">>

\* what ghdl -a may leave as work-obj93.cf
CatalogTexts ==
    { PREFIX \o <<"a", NL>>,
      <<"v", "4", NL>> \o PREFIX \o <<"b">> }

NoErr == [msg |-> "", arg |-> ""]

Fatal(m, a) == [msg |-> m, arg |-> a]

VARIABLES
    \* ---- one run of gb (Spec) ----
    cmd,            \* the parsed Commands variant
    cliVcd,         \* --vcd of Run and Wave
    manifest,       \* "ok", "sample" or the error the manifest runs into
    files,          \* target.<t>.files
    file_to_execute,\* target.<t>.execute
    vcd_output_name,\* target.<t>.vcd-name
    default_vcd_viewer, \* default.vcd-viewer
    macos,          \* cfg!(target_os = "macos")
    srcExists,      \* the paths of the file list that exist on disk
    pc,             \* position in validate
    err,            \* the GbError validate returns
    invoked,        \* stages called so far, in order
    spawned,        \* subprocesses spawned so far, in order
    running,        \* children spawned and not yet waited for
    waiting,        \* ExitStatus::success() of the analyze child
    outcomes,       \* how each toolchain invocation so far ended, in order
    idx,            \* position of the loop of move_artifacts_to_build_directory
    cwdObj,         \* object artifacts in the working directory
    buildObj,       \* object artifacts in build/root/
    cwdCatalog,     \* text of ./work-obj93.cf, or NoFile
    buildCatalog,   \* text of build/root/work-obj93.cf, or NoFile
    diag,           \* missing files listed on stderr
    fsOps,          \* file system changes made by gb, in order
    \* ---- the line rewriting (SpecCatalog) ----
    catIn,          \* lines given to the loop
    catOut,         \* lines after the loop, as Option
    \* ---- generate_sources_for (SpecResolve) ----
    rfs,            \* the source tree: path -> [exists, readable, comps]
    root,           \* the argument of generate_sources_for
    map,            \* HashMap<PathBuf, Vec<PathBuf>>: path -> Option<Vec>
    stack,          \* frames of generate_sources_inner
    rpc,            \* position in generate_sources_for
    result,         \* the returned HashSet, as Option
    reads,          \* calls of get_components_of per path, in this call
    parses,         \* calls of Parser::parse per path, in this call
    lock,           \* VHDL_TREE_SITTER is locked
    prev            \* set and map of the call before this one, as Option

pipeVars ==
    << cmd, cliVcd, manifest, files, file_to_execute, vcd_output_name,
       default_vcd_viewer, macos, srcExists, pc, err, invoked, spawned,
       running, waiting, outcomes, idx, cwdObj, buildObj, cwdCatalog, buildCatalog,
       diag, fsOps >>

catVars == << catIn, catOut >>

resVars == << rfs, root, map, stack, rpc, result, reads, parses, lock, prev >>

vars == << pipeVars, catVars, resVars >>


(***************************************************************************)
(* One run of gb: main calls validate                                      *)
(***************************************************************************)
confVars ==
    << cmd, cliVcd, files, file_to_execute, vcd_output_name,
       default_vcd_viewer, macos, srcExists >>

fsVars == << cwdObj, buildObj, cwdCatalog, buildCatalog, fsOps >>

path_str(p) == p.dir \o "/" \o p.file

EntryFiles == { NoneOpt, Some(SrcDA), Some(DotDot) }

\* The entry file and macos matter to Compile, Run and Wave, the waveform
\* names to Run and Wave, the viewer to Wave; of the source paths only
\* those in the file list are looked at.
PipeInit ==
    /\ cmd \in Commands
    /\ manifest \in ManifestErrors \cup { "ok" }
    /\ cliVcd \in (IF manifest = "ok" /\ cmd \in { "Run", "Wave" }
                   THEN CliVcds ELSE { NoneOpt })
    /\ files \in (IF manifest = "ok" /\ cmd # "Init"
                  THEN SeqsUpTo(SrcPaths, MaxFiles) ELSE { <<>> })
    /\ file_to_execute \in (IF manifest = "ok" /\ cmd \in { "Compile", "Run", "Wave" }
                            THEN EntryFiles ELSE { NoneOpt })
    /\ vcd_output_name \in (IF manifest = "ok" /\ cmd \in { "Run", "Wave" }
                            THEN TargetVcds ELSE { NoneOpt })
    /\ default_vcd_viewer \in (IF manifest = "ok" /\ cmd = "Wave"
                               THEN Viewers ELSE { NoneOpt })
    /\ macos \in (IF manifest = "ok" /\ cmd \in { "Compile", "Run", "Wave" }
                  THEN BOOLEAN ELSE { FALSE })
    /\ srcExists \in { X \cup (Range(files) \cap { DotDot }) :
                       X \in SUBSET (Range(files) \ { DotDot }) }
    /\ pc = "start"
    /\ err = NoErr
    /\ invoked = <<>>
    /\ spawned = <<>>
    /\ running = {}
    /\ waiting = TRUE
    /\ outcomes = <<>>
    /\ idx = 1
    /\ cwdObj = {}
    /\ buildObj = {}
    /\ cwdCatalog = NoFile
    /\ buildCatalog = NoFile
    /\ diag = <<>>
    /\ fsOps = <<>>

CatIdle == catIn = <<>> /\ catOut = NoneOpt

ResIdle ==
    /\ rfs = <<>>
    /\ root = <<>>
    /\ map = <<>>
    /\ stack = <<>>
    /\ rpc = "idle"
    /\ result = NoneOpt
    /\ reads = <<>>
    /\ parses = <<>>
    /\ lock = FALSE
    /\ prev = NoneOpt

\* no run of gb
PipeIdle ==
    /\ cmd = "Init"
    /\ cliVcd = NoneOpt
    /\ manifest = "ok"
    /\ files = <<>>
    /\ file_to_execute = NoneOpt
    /\ vcd_output_name = NoneOpt
    /\ default_vcd_viewer = NoneOpt
    /\ macos = FALSE
    /\ srcExists = {}
    /\ pc = "idle"
    /\ err = NoErr
    /\ invoked = <<>>
    /\ spawned = <<>>
    /\ running = {}
    /\ waiting = TRUE
    /\ outcomes = <<>>
    /\ idx = 1
    /\ cwdObj = {}
    /\ buildObj = {}
    /\ cwdCatalog = NoFile
    /\ buildCatalog = NoFile
    /\ diag = <<>>
    /\ fsOps = <<>>

Init == PipeInit /\ CatIdle /\ ResIdle

fail(e) == pc' = "failed" /\ err' = e

\* files.iter().filter(|f| !Path::new(f).exists()).collect()
missing_first_only(fs) ==
    LET all == SelectSeq(fs, LAMBDA f : f \notin srcExists)
    IN  IF all = <<>> THEN <<>> ELSE <<all[1]>>

missing_files(fs) == SelectSeq(fs, LAMBDA f : f \notin srcExists)

\* the arms of `match commands`: where validate goes when a stage returned Ok
stage_after_runs_compile(c, stage) ==
    CASE stage = "Analyze"   -> IF c = "Analyze" THEN "done" ELSE "elaborate"
      [] stage = "Elaborate" -> "execute"
      [] stage = "Execute"   -> IF c = "Wave" THEN "wave" ELSE "done"
      [] stage = "Wave"      -> "done"

stage_after(c, stage) ==
    CASE stage = "Analyze"   -> IF c = "Analyze" THEN "done" ELSE "elaborate"
      [] stage = "Elaborate" -> IF c = "Compile" THEN "done" ELSE "execute"
      [] stage = "Execute"   -> IF c = "Wave" THEN "wave" ELSE "done"
      [] stage = "Wave"      -> "done"

proc(prog, mode, fs, unit, extra, cwd) ==
    [prog |-> prog, mode |-> mode, files |-> fs, unit |-> unit,
     extra |-> extra, cwd |-> cwd]

\* init(): what it has written when it stops at each point
init ==
    IF manifest # ManifestAbsent
    THEN pc' = "done" /\ UNCHANGED << err, manifest, fsOps >>
    ELSE \E stop \in { "open", "append", "toml", "src", "ok" } :
           /\ fsOps' = CASE stop = "open"   -> fsOps
                         [] stop = "append" -> fsOps \o <<"create .gitignore">>
                         [] stop = "toml"   -> fsOps \o <<"create .gitignore", "append .gitignore">>
                         [] stop = "src"    -> fsOps \o <<"create .gitignore", "append .gitignore",
                                                          "write gb.toml">>
                         [] stop = "ok"     -> fsOps \o <<"create .gitignore", "append .gitignore",
                                                          "write gb.toml", "mkdir src/">>
           /\ manifest' = IF stop \in { "src", "ok" } THEN "sample" ELSE manifest
           /\ IF stop = "ok"
              THEN pc' = "done" /\ err' = err
              ELSE fail(Fatal(CASE stop = "open"   -> "could not create .gitignore file"
                                [] stop = "append" -> "could not write '/build' into .gitignore"
                                [] stop = "toml"   -> "could not write sample gb.toml"
                                [] stop = "src"    -> "could not create src/ dir", ""))

\* validate up to `match commands`
validate ==
    /\ pc = "start"
    /\ IF cmd = "Init"
       THEN init /\ diag' = diag
       ELSE /\ UNCHANGED << manifest, fsOps >>
            /\ IF manifest \in ManifestErrors
               THEN fail(Fatal(manifest, "")) /\ diag' = diag
               ELSE IF Len(missing_files(files)) > 0
                    THEN /\ diag' = missing_files(files)
                         /\ fail(Fatal("There were missing files.", ""))
                    ELSE pc' = "analyze" /\ UNCHANGED << err, diag >>
    /\ UNCHANGED << catVars, resVars >>
    /\ UNCHANGED << confVars, invoked, spawned, running, waiting, outcomes, idx,
                    cwdObj, buildObj, cwdCatalog, buildCatalog >>

\* analyze_vhdl calls compile_vhd_files, which spawns `ghdl -a <files>`
analyze_vhdl ==
    /\ pc = "analyze"
    /\ invoked' = Append(invoked, "Analyze")
    /\ \E spawnOk \in BOOLEAN :
         IF spawnOk
         THEN /\ spawned' = Append(spawned, proc("ghdl", "-a", files, NoneOpt, <<>>, "."))
              /\ running' = running \cup { "ghdl -a" }
              /\ pc' = "analyze_wait"
              /\ UNCHANGED << err, outcomes >>
         ELSE /\ fail(Fatal("couldn't spawn ghdl subprocess", ""))
              /\ outcomes' = Append(outcomes, "spawn failed")
              /\ UNCHANGED << spawned, running >>
    /\ UNCHANGED << catVars, resVars >>
    /\ UNCHANGED << confVars, manifest, waiting, idx, fsVars, diag >>

\* how an invocation that was spawned ended: Child::wait and the exit status
exit_outcome(waitOk, success) ==
    IF ~waitOk THEN "wait failed" ELSE IF success THEN "ok" ELSE "non-zero exit"

\* a mutation of waited: the child is left running
not_waited(run, child) == run

\* the children still running once child.wait() has returned for `child`
waited(run, child) == run \ { child }

StemsOf(fs) == UNION { Range(file_stem(fs[i])) : i \in 1..Len(fs) }

\* child.wait() of compile_vhd_files returns: ghdl has exited and has left
\* any of the objects of the files and possibly a catalog
analyze_exit ==
    /\ pc = "analyze_wait"
    /\ running' = waited(running, "ghdl -a")
    /\ \E produced \in SUBSET StemsOf(files), cat \in { NoFile } \cup CatalogTexts :
         /\ cwdObj' = cwdObj \cup { artifact_of(st) : st \in produced }
         /\ cwdCatalog' = cat
    /\ \E waitOk \in BOOLEAN, success \in BOOLEAN :
         /\ outcomes' = Append(outcomes, exit_outcome(waitOk, success))
         /\ IF waitOk
            THEN pc' = "cleanup" /\ waiting' = success /\ err' = err
            ELSE /\ fail(Fatal("couldn't await ghdl analyze subprocess, is ghdl installed?", ""))
                 /\ waiting' = waiting
    /\ UNCHANGED << catVars, resVars >>
    /\ UNCHANGED << confVars, manifest, invoked, spawned, idx, buildObj,
                    buildCatalog, diag, fsOps >>


\* a mutation of cwd_catalog_after: the original is deleted before the write
cwd_catalog_removed_first(stop, text) ==
    IF stop \in { "write", "remove", "ok" } THEN NoFile ELSE text

\* ./work-obj93.cf after move_work_obj93_to_build_directory has stopped at
\* `stop`: remove_file is the last call and is reached when the write is Ok
cwd_catalog_after(stop, text) ==
    IF stop = "ok" THEN NoFile ELSE text

\* cleanup_build_dir, first call: move_work_obj93_to_build_directory.
\* It is called whatever the exit status of ghdl was.
move_work_obj93_to_build_directory ==
    /\ pc = "cleanup"
    /\ IF cwdCatalog = NoFile
       THEN /\ fail(Fatal("could not load work-obj93.cf", "work-obj93.cf"))
            /\ UNCHANGED << cwdCatalog, buildCatalog, fsOps >>
       ELSE \E stop \in { "mkdir", "write", "remove", "ok" } :
              /\ buildCatalog' = IF stop \in { "remove", "ok" }
                                 THEN rewrite_catalog(cwdCatalog) ELSE buildCatalog
              /\ cwdCatalog' = cwd_catalog_after(stop, cwdCatalog)
              /\ fsOps' = CASE stop = "mkdir"  -> fsOps
                            [] stop = "write"  -> fsOps \o <<"mkdir build/root/">>
                            [] stop = "remove" -> fsOps \o <<"mkdir build/root/",
                                                             "write build/root/work-obj93.cf">>
                            [] stop = "ok"     -> fsOps \o <<"mkdir build/root/",
                                                             "write build/root/work-obj93.cf",
                                                             "remove work-obj93.cf">>
              /\ IF stop = "ok"
                 THEN pc' = "move_artifacts" /\ err' = err
                 ELSE fail(Fatal(CASE stop = "mkdir"  -> "could not create the build directory"
                                   [] stop = "write"  -> "could not move modified work-obj93.cf"
                                   [] stop = "remove" -> "could not remove work-obj93.cf",
                                 "work-obj93.cf"))
    /\ UNCHANGED << catVars, resVars >>
    /\ UNCHANGED << confVars, manifest, invoked, spawned, running, waiting, outcomes,
                    idx, cwdObj, buildObj, diag >>

\* cleanup_build_dir, second call: move_artifacts_to_build_directory, up to
\* its loop
move_artifacts_to_build_directory ==
    /\ pc = "move_artifacts"
    /\ \E mkdirOk \in BOOLEAN :
         IF mkdirOk
         THEN /\ pc' = "move_loop"
              /\ idx' = 1
              /\ fsOps' = Append(fsOps, "mkdir build/root/")
              /\ err' = err
         ELSE /\ fail(Fatal("could not create build directory", ""))
              /\ UNCHANGED << idx, fsOps >>
    /\ UNCHANGED << catVars, resVars >>
    /\ UNCHANGED << confVars, manifest, invoked, spawned, running, waiting, outcomes,
                    cwdObj, buildObj, cwdCatalog, buildCatalog, diag >>

\* one iteration of `for file_str in files`
move_artifact ==
    /\ pc = "move_loop"
    /\ idx <= Len(files)
    /\ LET stem == file_stem(files[idx])
       IN  IF stem = NoneOpt
           THEN /\ fail(Fatal("could not get file stem for", path_str(files[idx])))
                /\ UNCHANGED << idx, cwdObj, buildObj, fsOps >>
           ELSE LET path == artifact_of(stem[1])
                IN  \E renameOk \in BOOLEAN :
                      IF renameOk /\ path \in cwdObj
                      THEN /\ cwdObj' = cwdObj \ { path }
                           /\ buildObj' = buildObj \cup { path }
                           /\ fsOps' = Append(fsOps, "rename " \o path \o ".o")
                           /\ idx' = idx + 1
                           /\ UNCHANGED << pc, err >>
                      ELSE /\ fail(Fatal("could not move generated build artifact", path))
                           /\ UNCHANGED << idx, cwdObj, buildObj, fsOps >>
    /\ UNCHANGED << catVars, resVars >>
    /\ UNCHANGED << confVars, manifest, invoked, spawned, running, waiting, outcomes,
                    cwdCatalog, buildCatalog, diag >>

\* the loop is over: cleanup_build_dir returns Ok, compile_vhd_files looks at
\* the exit status and analyze_vhdl returns
analyze_status ==
    /\ pc = "move_loop"
    /\ idx > Len(files)
    /\ IF ~waiting
       THEN fail(Fatal("GHDL didn't compile successfully.", ""))
       ELSE pc' = stage_after(cmd, "Analyze") /\ err' = err
    /\ UNCHANGED << catVars, resVars >>
    /\ UNCHANGED << confVars, manifest, invoked, spawned, running, waiting, outcomes,
                    idx, fsVars, diag >>


\* Check::fatal for Option: None is an error, Some(x) is Ok(x)
check_fatal(opt) ==
    IF opt = NoneOpt THEN [ok |-> FALSE, val |-> NoneOpt] ELSE [ok |-> TRUE, val |-> opt]

\* a mutation of require_entry: a missing entry falls back to a default
require_entry_defaulted(f) == check_fatal(opt_or(f, Some(SrcA)))

\* file_to_execute.fatal("must have a file chosen to execute ...")
require_entry(f) == check_fatal(f)

\* a mutation of await_vhdl_process: the exit status is not looked at
await_vhdl_process_any_status(waitOk, success) ==
    IF ~waitOk THEN "couldn't await" ELSE "Ok"

\* await_vhdl_process: child.wait(), then the exit status
await_vhdl_process(waitOk, success) ==
    IF ~waitOk THEN "couldn't await"
    ELSE IF ~success THEN "GHDL didn't compile successfully."
    ELSE "Ok"

\* file_to_exec: what file_to_execute.fatal(...)? leaves in elaborate_vhdl_solution,
\* which returns it to validate for execute_vhdl_solution
file_to_exec == require_entry(file_to_execute).val[1]

\* the ghdl -e child of elaborate_vhdl_solution; run is the set of children
\* still running when it is spawned
spawn_elaborate(extra, run) ==
    LET stem == check_fatal(file_stem(file_to_exec))
    IN  IF ~stem.ok
        THEN /\ fail(Fatal("could not get base filename", path_str(file_to_exec)))
             /\ spawned' = spawned
             /\ running' = run
             /\ outcomes' = outcomes
        ELSE \E spawnOk \in BOOLEAN :
               IF spawnOk
               THEN /\ spawned' = Append(spawned,
                                         proc("ghdl", "-e", <<>>, stem.val, extra, "build/root/"))
                    /\ running' = run \cup { "ghdl -e" }
                    /\ pc' = "elaborate_wait"
                    /\ UNCHANGED << err, outcomes >>
               ELSE /\ fail(Fatal("couldn't spawn ghdl elaborate subprocess, is ghdl installed?", ""))
                    /\ outcomes' = Append(outcomes, "spawn failed")
                    /\ spawned' = spawned
                    /\ running' = run

\* elaborate_vhdl_solution up to its first spawn
elaborate_vhdl_solution ==
    /\ pc = "elaborate"
    /\ invoked' = Append(invoked, "Elaborate")
    /\ IF ~require_entry(file_to_execute).ok
       THEN /\ fail(Fatal("must have a file chosen to execute in order to elaborate", ""))
            /\ UNCHANGED << spawned, running, outcomes >>
       ELSE IF macos
            THEN \E spawnOk \in BOOLEAN :
                   IF spawnOk
                   THEN /\ spawned' = Append(spawned,
                                             proc("sw_vers", "", <<>>, NoneOpt, <<>>, "."))
                        /\ running' = running \cup { "sw_vers" }
                        /\ pc' = "sw_vers_wait"
                        /\ UNCHANGED << err, outcomes >>
                   ELSE /\ fail(Fatal("panic: could not access macos version", ""))
                        /\ UNCHANGED << spawned, running, outcomes >>
            ELSE spawn_elaborate(<<>>, running)
    /\ UNCHANGED << catVars, resVars >>
    /\ UNCHANGED << confVars, manifest, waiting, idx, fsVars, diag >>

\* get_macos_version after its spawn: wait_with_output, then the parse of
\* sw_vers' output, then back in elaborate_vhdl_solution
get_macos_version ==
    /\ pc = "sw_vers_wait"
    /\ \E good \in BOOLEAN :
         IF good
         THEN spawn_elaborate(<<"-Wl,-mmacosx-version-min=<version>">>, waited(running, "sw_vers"))
         ELSE /\ fail(Fatal("panic: could not access macos version", ""))
              /\ spawned' = spawned
              /\ running' = waited(running, "sw_vers")
              /\ outcomes' = outcomes
    /\ UNCHANGED << catVars, resVars >>
    /\ UNCHANGED << confVars, manifest, invoked, waiting, idx, fsVars, diag >>

\* await_vhdl_process(child) of elaborate_vhdl_solution, which then returns
elaborate_exit ==
    /\ pc = "elaborate_wait"
    /\ running' = waited(running, "ghdl -e")
    /\ \E waitOk \in BOOLEAN, success \in BOOLEAN :
         /\ outcomes' = Append(outcomes, exit_outcome(waitOk, success))
         /\ LET r == await_vhdl_process(waitOk, success)
            IN  IF r = "Ok"
                THEN pc' = stage_after(cmd, "Elaborate") /\ err' = err
                ELSE fail(Fatal(r, ""))
    /\ UNCHANGED << catVars, resVars >>
    /\ UNCHANGED << confVars, manifest, invoked, spawned, waiting, idx, fsVars, diag >>

\* a mutation of vcd: the name of the target comes first
vcd_target_first == opt_or(vcd_output_name, cliVcd)

\* vcd.clone().or(vcd_output_name)
vcd == opt_or(cliVcd, vcd_output_name)

\* the match on vcd of execute_vhdl_solution
vcd_args(v) == IF v = NoneOpt THEN <<>> ELSE << "--vcd=" \o v[1] >>

\* execute_vhdl_solution up to its spawn
execute_vhdl_solution ==
    /\ pc = "execute"
    /\ invoked' = Append(invoked, "Execute")
    /\ LET stem == check_fatal(file_stem(file_to_exec))
       IN  IF ~stem.ok
           THEN /\ fail(Fatal("could not get base filename", path_str(file_to_exec)))
                /\ UNCHANGED << spawned, running, outcomes >>
           ELSE \E spawnOk \in BOOLEAN :
                  IF spawnOk
                  THEN /\ spawned' = Append(spawned,
                                            proc("ghdl", "-r", <<>>, stem.val,
                                                 vcd_args(vcd), "build/root/"))
                       /\ running' = running \cup { "ghdl -r" }
                       /\ pc' = "execute_wait"
                       /\ UNCHANGED << err, outcomes >>
                  ELSE /\ fail(Fatal("couldn't spawn ghdl run subprocess, is ghdl installed?", ""))
                       /\ outcomes' = Append(outcomes, "spawn failed")
                       /\ UNCHANGED << spawned, running >>
    /\ UNCHANGED << catVars, resVars >>
    /\ UNCHANGED << confVars, manifest, waiting, idx, fsVars, diag >>

\* await_vhdl_process(child) of execute_vhdl_solution, which then returns
execute_exit ==
    /\ pc = "execute_wait"
    /\ running' = waited(running, "ghdl -r")
    /\ \E waitOk \in BOOLEAN, success \in BOOLEAN :
         /\ outcomes' = Append(outcomes, exit_outcome(waitOk, success))
         /\ LET r == await_vhdl_process(waitOk, success)
            IN  IF r = "Ok"
                THEN pc' = stage_after(cmd, "Execute") /\ err' = err
                ELSE fail(Fatal(r, ""))
    /\ UNCHANGED << catVars, resVars >>
    /\ UNCHANGED << confVars, manifest, invoked, spawned, waiting, idx, fsVars, diag >>

\* a mutation of viewer_check: any configured viewer is accepted
viewer_check_any_viewer(v, viewer) ==
    IF v = NoneOpt
    THEN "vcd-name not set in target for toml. Cannot launch vcd viewer"
    ELSE IF viewer = NoneOpt
    THEN "top level default.vcd-viewer not set in target for toml. Cannot launch vcd viewer"
    ELSE "Ok"

\* the three checks of launch_vcd_viewer, in order
viewer_check(v, viewer) ==
    IF v = NoneOpt
    THEN "vcd-name not set in target for toml. Cannot launch vcd viewer"
    ELSE IF viewer = NoneOpt
    THEN "top level default.vcd-viewer not set in target for toml. Cannot launch vcd viewer"
    ELSE IF viewer # Some("gtkwave")
    THEN "The only supported wave viewer is gtkwave."
    ELSE "Ok"

\* launch_vcd_viewer up to its spawn
launch_vcd_viewer ==
    /\ pc = "wave"
    /\ invoked' = Append(invoked, "Wave")
    /\ LET r == viewer_check(vcd, default_vcd_viewer)
       IN  IF r # "Ok"
           THEN fail(Fatal(r, "")) /\ UNCHANGED << spawned, running >>
           ELSE \E spawnOk \in BOOLEAN :
                  IF spawnOk
                  THEN /\ spawned' = Append(spawned,
                                            proc("gtkwave", "", <<>>, NoneOpt,
                                                 << path_join("build/root", vcd[1]) >>, "."))
                       /\ running' = running \cup { "gtkwave" }
                       /\ pc' = "viewer_wait"
                       /\ err' = err
                  ELSE /\ fail(Fatal("could not create gtkwave", ""))
                       /\ UNCHANGED << spawned, running >>
    /\ UNCHANGED << catVars, resVars >>
    /\ UNCHANGED << confVars, manifest, waiting, outcomes, idx, fsVars, diag >>

\* .wait() on the gtkwave child: launch_vcd_viewer returns when the viewer
\* has exited; its exit status is not looked at
viewer_exit ==
    /\ pc = "viewer_wait"
    /\ running' = waited(running, "gtkwave")
    /\ \E waitOk \in BOOLEAN :
         IF waitOk
         THEN pc' = stage_after(cmd, "Wave") /\ err' = err
         ELSE fail(Fatal("failed to await gtkwave", ""))
    /\ UNCHANGED << catVars, resVars >>
    /\ UNCHANGED << confVars, manifest, invoked, spawned, waiting, outcomes, idx, fsVars, diag >>

PipeNext ==
    \/ validate
    \/ analyze_vhdl
    \/ analyze_exit
    \/ move_work_obj93_to_build_directory
    \/ move_artifacts_to_build_directory
    \/ move_artifact
    \/ analyze_status
    \/ elaborate_vhdl_solution
    \/ get_macos_version
    \/ elaborate_exit
    \/ execute_vhdl_solution
    \/ execute_exit
    \/ launch_vcd_viewer
    \/ viewer_exit

Next == PipeNext

Spec == Init /\ [][Next]_vars


(***************************************************************************)
(* The line rewriting of move_work_obj93_to_build_directory applied to     *)
(* a list of lines                                                         *)
(***************************************************************************)
CatInit ==
    /\ catIn \in SeqsUpTo(CatalogLines, MaxLines)
    /\ catOut = NoneOpt

\* `for line in &mut lines { ... }`
rewrite ==
    /\ catOut = NoneOpt
    /\ catOut' = Some(rewrite_lines(catIn))
    /\ catIn' = catIn
    /\ UNCHANGED << pipeVars, resVars >>

CatNext == rewrite

InitCatalog == PipeIdle /\ CatInit /\ ResIdle

SpecCatalog == InitCatalog /\ [][CatNext]_vars

(***************************************************************************)
(* generate_sources_for over a source tree of two directories              *)
(***************************************************************************)
RDirs == { "p", "q" }

RNames == { "a", "b" }

RPaths == [dir : RDirs, name : RNames]

\* deepest nesting of generate_sources_inner followed
StackLimit == 6

Absent == [exists |-> FALSE, readable |-> FALSE, comps |-> <<>>]

Unreadable == [exists |-> TRUE, readable |-> FALSE, comps |-> <<>>]

Readable(c) == [exists |-> TRUE, readable |-> TRUE, comps |-> c]

\* the files of the directory of the root: absent, present and not readable
\* as text, or a source with its component declarations in order
FileStates ==
    { Absent, Unreadable } \cup { Readable(c) : c \in SeqsUpTo(RNames, MaxComps) }

\* the files of the other directory
OtherFileStates == { Absent, Readable(<<>>), Readable(<<"b">>) }

ResInit ==
    /\ rfs \in { f \in [RPaths -> FileStates \cup OtherFileStates] :
                 \A p \in RPaths : f[p] \in (IF p.dir = "p" THEN FileStates
                                             ELSE OtherFileStates) }
    /\ root \in { p \in RPaths : p.dir = "p" }
    /\ map = [p \in RPaths |-> NoneOpt]
    /\ stack = <<>>
    /\ rpc = "start"
    /\ result = NoneOpt
    /\ reads = [p \in RPaths |-> 0]
    /\ parses = [p \in RPaths |-> 0]
    /\ lock = FALSE
    /\ prev = NoneOpt

\* a mutation of contains_key: no path counts as visited
contains_key_never(m, path) == FALSE

\* HashMap::contains_key
contains_key(m, path) == m[path] # NoneOpt

\* path.with_file_name(comp).with_extension("vhd")
sibling(path, comp) == [dir |-> path.dir, name |-> comp]

\* a mutation of dependency_paths: only the first existing candidate is kept
dependency_paths_first_only(path, components) ==
    LET all == SelectSeq([i \in 1..Len(components) |-> sibling(path, components[i])],
                         LAMBDA q : rfs[q].exists)
    IN  IF all = <<>> THEN <<>> ELSE << all[1] >>

\* a mutation of dependency_paths: the candidates are not filtered
dependency_paths_unfiltered(path, components) ==
    [i \in 1..Len(components) |-> sibling(path, components[i])]

\* components.iter().map(...).filter(|path| path.exists())
dependency_paths(path, components) ==
    SelectSeq([i \in 1..Len(components) |-> sibling(path, components[i])],
              LAMBDA q : rfs[q].exists)

frame(path) == [path |-> path, st |-> "enter", paths |-> <<>>, i |-> 1]

Top == stack[Len(stack)]

Pop == SubSeq(stack, 1, Len(stack) - 1)

\* the orders in which QueryCursor::matches can yield the declarations of a
\* file: the order is the query cursor's, every order is followed
match_orders(comps) ==
    { [i \in 1..Len(comps) |-> comps[f[i]]] :
        f \in { g \in [1..Len(comps) -> 1..Len(comps)] :
                  \A i, j \in 1..Len(comps) : g[i] = g[j] => i = j } }

\* a mutation of drop_guard: the MutexGuard outlives get_components_of
keep_guard(l) == l

\* the MutexGuard `parser` goes out of scope when get_components_of returns
drop_guard(l) == FALSE

\* generate_sources_for: the first call of generate_sources_inner
generate_sources_for ==
    /\ rpc = "start"
    /\ rpc' = "inner"
    /\ stack' = << frame(root) >>
    /\ UNCHANGED << rfs, root, map, result, reads, parses, lock, prev >>
    /\ UNCHANGED << pipeVars, catVars >>

\* generate_sources_inner from its entry into get_components_of: the
\* visited check and read_to_string
generate_sources_inner ==
    /\ rpc = "inner"
    /\ stack # <<>>
    /\ Top.st = "enter"
    /\ LET path == Top.path
       IN  IF contains_key(map, path)
           THEN stack' = Pop /\ reads' = reads
           ELSE /\ reads' = [reads EXCEPT ![path] = @ + 1]
                /\ IF ~rfs[path].readable
                   THEN stack' = Pop
                   ELSE stack' = [stack EXCEPT ![Len(stack)].st = "lock"]
    /\ UNCHANGED << rfs, root, map, rpc, result, parses, lock, prev >>
    /\ UNCHANGED << pipeVars, catVars >>

\* VHDL_TREE_SITTER.lock() in get_components_of: blocks while the mutex is
\* locked
lock_parser ==
    /\ rpc = "inner"
    /\ stack # <<>>
    /\ Top.st = "lock"
    /\ ~lock
    /\ lock' = TRUE
    /\ stack' = [stack EXCEPT ![Len(stack)].st = "parse"]
    /\ UNCHANGED << rfs, root, map, rpc, result, reads, parses, prev >>
    /\ UNCHANGED << pipeVars, catVars >>

\* the rest of get_components_of (the parse and the query, then the return,
\* which drops the guard) and generate_sources_inner up to its loop (the
\* candidates and the insertion into the map)
get_components_of ==
    /\ rpc = "inner"
    /\ stack # <<>>
    /\ Top.st = "parse"
    /\ parses' = [parses EXCEPT ![Top.path] = @ + 1]
    /\ lock' = drop_guard(lock)
    /\ \E components \in match_orders(rfs[Top.path].comps) :
         LET paths == dependency_paths(Top.path, components)
         IN  /\ map' = [map EXCEPT ![Top.path] = Some(paths)]
             /\ stack' = [stack EXCEPT ![Len(stack)] =
                             [path |-> Top.path, st |-> "loop",
                              paths |-> paths, i |-> 1]]
    /\ UNCHANGED << rfs, root, rpc, result, reads, prev >>
    /\ UNCHANGED << pipeVars, catVars >>

\* `for path in paths { generate_sources_inner(&path, set) }`: the next call
recurse ==
    /\ rpc = "inner"
    /\ stack # <<>>
    /\ Top.st = "loop"
    /\ Top.i <= Len(Top.paths)
    /\ Len(stack) < StackLimit
    /\ stack' = Append([stack EXCEPT ![Len(stack)].i = @ + 1], frame(Top.paths[Top.i]))
    /\ UNCHANGED << rfs, root, map, rpc, result, reads, parses, lock, prev >>
    /\ UNCHANGED << pipeVars, catVars >>

\* the loop is over: generate_sources_inner returns
inner_return ==
    /\ rpc = "inner"
    /\ stack # <<>>
    /\ Top.st = "loop"
    /\ Top.i > Len(Top.paths)
    /\ stack' = Pop
    /\ UNCHANGED << rfs, root, map, rpc, result, reads, parses, lock, prev >>
    /\ UNCHANGED << pipeVars, catVars >>

\* the keys of the map and the paths of their lists
flattened(m) ==
    { k \in DOMAIN m : m[k] # NoneOpt }
        \cup UNION { Range(m[k][1]) : k \in { k \in DOMAIN m : m[k] # NoneOpt } }

\* `for (k, v) in map { set.insert(k); set.extend(v); }`
flatten ==
    /\ rpc = "inner"
    /\ stack = <<>>
    /\ result' = Some(flattened(map))
    /\ rpc' = "done"
    /\ UNCHANGED << rfs, root, map, stack, reads, parses, lock, prev >>
    /\ UNCHANGED << pipeVars, catVars >>

\* generate_sources_for is called once more, for the same root and on the
\* same files: `let mut map = HashMap::new()` and the first call of
\* generate_sources_inner
generate_sources_for_again ==
    /\ rpc = "done"
    /\ prev = NoneOpt
    /\ prev' = Some([set |-> result[1], map |-> map])
    /\ result' = NoneOpt
    /\ map' = [p \in RPaths |-> NoneOpt]
    /\ reads' = [p \in RPaths |-> 0]
    /\ parses' = [p \in RPaths |-> 0]
    /\ stack' = << frame(root) >>
    /\ rpc' = "inner"
    /\ UNCHANGED << rfs, root, lock >>
    /\ UNCHANGED << pipeVars, catVars >>

ResNext ==
    \/ generate_sources_for
    \/ generate_sources_inner
    \/ lock_parser
    \/ get_components_of
    \/ generate_sources_for_again
    \/ recurse
    \/ inner_return
    \/ flatten

InitResolve == PipeIdle /\ CatIdle /\ ResInit

SpecResolve == InitResolve /\ [][ResNext]_vars

\* the program takes its next step as long as it has one
FairSpecResolve == SpecResolve /\ WF_vars(ResNext)

(***************************************************************************)
(* Properties of one run of gb                                             *)
(***************************************************************************)
IsPrefix(s, t) == Len(s) <= Len(t) /\ SubSeq(t, 1, Len(s)) = s

\* the fixed stage sequence of each command
StageSeq(c) ==
    CASE c = "Analyze" -> <<"Analyze">>
      [] c = "Compile" -> <<"Analyze", "Elaborate">>
      [] c = "Run"     -> <<"Analyze", "Elaborate", "Execute">>
      [] c = "Wave"    -> <<"Analyze", "Elaborate", "Execute", "Wave">>
      [] c = "Init"    -> <<>>

\* C1: the stages invoked so far are a prefix, in order, of the fixed
\* sequence of the command (so no stage is invoked twice, out of order or
\* for a command that does not have it), and a run in which every stage
\* succeeded has invoked the whole sequence.
C1_StagesArePrefix ==
    /\ IsPrefix(invoked, StageSeq(cmd))
    /\ pc = "done" => invoked = StageSeq(cmd)

C1_Witness ==
    /\ pc = "done"
    /\ cmd = "Wave"
    /\ invoked = <<"Analyze", "Elaborate", "Execute", "Wave">>

\* subprocesses of the toolchain among those spawned
ToolchainSpawns == SelectSeq(spawned, LAMBDA p : p.prog = "ghdl")

\* C2: once an invocation of the toolchain has failed (to spawn, or with a
\* non-zero exit status), it is the last one: nothing was spawned after it,
\* the run is in the relocation of that stage, where it has a next step, or
\* has ended with a fatal error, and it never ends with Ok.
C2_FailFast ==
    \A i \in 1..Len(outcomes) :
        outcomes[i] # "ok" =>
            /\ i = Len(outcomes)
            /\ Len(ToolchainSpawns) = IF outcomes[i] = "spawn failed" THEN i - 1 ELSE i
            /\ Len(spawned) > 0 => spawned[Len(spawned)].prog \in { "ghdl", "sw_vers" }
            /\ Len(spawned) > 0 /\ outcomes[i] # "spawn failed"
                   => spawned[Len(spawned)].prog = "ghdl"
            /\ running = {}
            /\ pc \in { "cleanup", "move_artifacts", "move_loop", "failed" }
            /\ pc # "failed" => invoked = <<"Analyze">> /\ ENABLED PipeNext
            /\ pc = "failed" => err # NoErr

C2_Witness ==
    /\ pc = "failed"
    /\ cmd = "Wave"
    /\ outcomes = <<"ok", "non-zero exit">>
    /\ Len(spawned) = 2

\* C3 (as claimed): when the analyze child exits with a non-zero status
\* nothing is relocated and the error is the failure of the toolchain.
C3_NoRelocationAfterFailedAnalyze ==
    (outcomes = <<"non-zero exit">>) =>
        /\ buildObj = {}
        /\ buildCatalog = NoFile
        /\ fsOps = <<>>
        /\ pc = "failed" => err.msg = "GHDL didn't compile successfully."

\* C4 (as claimed): when relocation fails on an absent object artifact, the
\* catalog has not been relocated.
C4_NoCatalogRelocationOnMissingObject ==
    (/\ pc = "failed"
     /\ err.msg = "could not move generated build artifact"
     /\ err.arg \notin cwdObj) =>
        /\ buildCatalog = NoFile
        /\ cwdCatalog # NoFile

\* C9: when files of the target are missing, the run has spawned nothing
\* and changed no file, it ends with a fatal error before any stage, and
\* the diagnostic lists every missing path.
C9_PreflightValidation ==
    (manifest = "ok" /\ cmd # "Init" /\ Range(files) \ srcExists # {}) =>
        /\ spawned = <<>>
        /\ invoked = <<>>
        /\ fsOps = <<>>
        /\ cwdObj = {} /\ buildObj = {}
        /\ cwdCatalog = NoFile /\ buildCatalog = NoFile
        /\ pc \in { "start", "failed" }
        /\ pc = "failed" =>
              /\ err.msg = "There were missing files."
              /\ Range(diag) = Range(files) \ srcExists

C9_Witness ==
    /\ pc = "failed"
    /\ Cardinality(Range(files) \ srcExists) = 2
    /\ Cardinality(Range(diag)) = 2

\* C10: without an entry file, Compile, Run and Wave spawn no elaborate,
\* execute or viewer process and never end with Ok; apart from Analyze and
\* its relocation only the entry check of Elaborate happens, and a run that
\* got through Analyze fails there.
C10_NoEntryFile ==
    (manifest = "ok" /\ cmd \in { "Compile", "Run", "Wave" } /\ file_to_execute = NoneOpt) =>
        /\ \A i \in 1..Len(spawned) : spawned[i].mode = "-a"
        /\ IsPrefix(invoked, <<"Analyze", "Elaborate">>)
        /\ pc # "done"
        /\ invoked = <<"Analyze", "Elaborate">> =>
              /\ pc = "failed"
              /\ err.msg = "must have a file chosen to execute in order to elaborate"

C10_Witness ==
    /\ cmd = "Run"
    /\ file_to_execute = NoneOpt
    /\ Len(files) = MaxFiles
    /\ pc = "failed"
    /\ invoked = <<"Analyze", "Elaborate">>
    /\ Len(spawned) = 1


(***************************************************************************)
(* Properties of the line rewriting                                        *)
(***************************************************************************)
BeginsWithMarker(line) == Len(line) >= 8 /\ \A k \in 1..8 : line[k] = PREFIX[k]

\* C5: the rewritten catalog has the same number of lines in the same
\* order; a line that begins with the marker becomes the marker, then
\* `../../`, then the rest of the line as it was; every other line, also one
\* with the marker further in, is unchanged.
C5_CatalogRewriting ==
    catOut # NoneOpt =>
        LET out == catOut[1]
        IN  /\ Len(out) = Len(catIn)
            /\ \A i \in 1..Len(catIn) :
                 IF BeginsWithMarker(catIn[i])
                 THEN out[i] = PREFIX \o <<".", ".", "/", ".", ".", "/">>
                                      \o SubSeq(catIn[i], 9, Len(catIn[i]))
                 ELSE out[i] = catIn[i]

C5_Witness ==
    /\ catOut # NoneOpt
    /\ Len(catIn) = 2
    /\ catIn[1] = PREFIX \o PREFIX \o <<"y">>
    /\ catIn[2] = <<" ">> \o PREFIX \o <<"x">>
    /\ catOut[1][1] = PREFIX \o UpUp \o PREFIX \o <<"y">>
    /\ catOut[1][2] = catIn[2]

(***************************************************************************)
(* Properties of generate_sources_for                                      *)
(***************************************************************************)
\* the existing siblings a readable file declares
Deps(p) ==
    IF rfs[p].readable
    THEN { q \in RPaths : /\ q.dir = p.dir
                          /\ q.name \in Range(rfs[p].comps)
                          /\ rfs[q].exists }
    ELSE {}

RECURSIVE Closure(_)
Closure(S) ==
    LET T == S \cup UNION { Deps(p) : p \in S }
    IN  IF T = S THEN S ELSE Closure(T)

\* C6: every call of generate_sources_for returns, whatever the references
\* are, and within a call no path is parsed and expanded more than once: a
\* path in the map is never read again.
C6_ResolveTerminates ==
    /\ <>[](rpc = "done")
    /\ [](\A p \in RPaths : parses[p] <= 1)
    /\ [][\A p \in RPaths : (rpc = "inner" /\ map[p] # NoneOpt)
                               => reads'[p] = reads[p] /\ map'[p] = map[p]]_vars

C6_Witness ==
    /\ rpc = "done"
    /\ "a" \in Range(rfs[[dir |-> "p", name |-> "a"]].comps)
    /\ "b" \in Range(rfs[[dir |-> "p", name |-> "a"]].comps)
    /\ "a" \in Range(rfs[[dir |-> "p", name |-> "b"]].comps)
    /\ "b" \in Range(rfs[[dir |-> "p", name |-> "b"]].comps)
    /\ root = [dir |-> "p", name |-> "a"]
    /\ parses[[dir |-> "p", name |-> "b"]] = 1

AllReadable ==
    /\ rfs[root].exists
    /\ \A p \in RPaths : rfs[p].exists => rfs[p].readable

\* C7: when the root and every existing file are readable, the result is
\* the root and the files reachable from it through references to existing
\* siblings; a reference to an absent sibling adds nothing.
C7_ResolveReachable ==
    (rpc = "done" /\ AllReadable) => result = Some(Closure({ root }))

C7_Witness ==
    /\ rpc = "done"
    /\ AllReadable
    /\ root = [dir |-> "p", name |-> "a"]
    /\ rfs[root].comps = <<"b", "a">>
    /\ ~rfs[[dir |-> "p", name |-> "b"]].exists
    /\ rfs[[dir |-> "q", name |-> "b"]].exists
    /\ result = Some({ root })

\* C8 (as claimed): an unreadable path, the root included, counts as a file
\* without components: the result is the root and what is reachable from it.
C8_UnreadableAsNoDependencies ==
    rpc = "done" => result = Some(Closure({ root }))


(***************************************************************************)
(* Properties of the Wave stage and of the arguments of the stages         *)
(***************************************************************************)
ViewerSpawned == \E i \in 1..Len(spawned) : spawned[i].prog = "gtkwave"

ViewerConfigErrors ==
    { "vcd-name not set in target for toml. Cannot launch vcd viewer",
      "top level default.vcd-viewer not set in target for toml. Cannot launch vcd viewer",
      "The only supported wave viewer is gtkwave." }

\* C11: a viewer process is spawned only by Wave, with a waveform name and
\* the viewer gtkwave configured; without a name, or with no or another
\* viewer, Wave never ends with Ok, never spawns a viewer, and its Wave
\* stage ends with a fatal configuration error.
C11_ViewerOnlyWhenConfigured ==
    /\ ViewerSpawned =>
          /\ cmd = "Wave"
          /\ opt_or(cliVcd, vcd_output_name) # NoneOpt
          /\ default_vcd_viewer = <<"gtkwave">>
    /\ (/\ cmd = "Wave"
        /\ manifest = "ok"
        /\ \/ opt_or(cliVcd, vcd_output_name) = NoneOpt
           \/ default_vcd_viewer # <<"gtkwave">>) =>
          /\ ~ViewerSpawned
          /\ pc # "done"
          /\ "Wave" \in Range(invoked) =>
                /\ pc = "failed"
                /\ err.msg \in ViewerConfigErrors

C11_Witness ==
    /\ cmd = "Wave"
    /\ default_vcd_viewer = <<"surfer">>
    /\ vcd_output_name = <<"t.vcd">>
    /\ invoked = <<"Analyze", "Elaborate", "Execute", "Wave">>
    /\ pc = "failed"
    /\ err.msg = "The only supported wave viewer is gtkwave."


\* C12: ghdl -a gets the file list of the target as it is, ghdl -e gets the
\* base name of the entry file, and ghdl -r gets the base name ghdl -e got.
C12_ArgumentThreading ==
    \A i \in 1..Len(spawned) :
        /\ spawned[i].mode = "-a" => spawned[i].files = files
        /\ spawned[i].mode = "-e" =>
              /\ file_to_execute # NoneOpt
              /\ spawned[i].unit = << file_to_execute[1].file >>
        /\ spawned[i].mode = "-r" =>
              \E j \in 1..(i - 1) : /\ spawned[j].mode = "-e"
                                    /\ spawned[j].unit = spawned[i].unit

C12_Witness ==
    /\ cmd = "Run"
    /\ pc = "done"
    /\ files = << SrcB, SrcA >>
    /\ file_to_execute = << SrcDA >>
    /\ Len(spawned) = 3
    /\ spawned[1].files = << SrcB, SrcA >>
    /\ spawned[2].unit = << "a" >>
    /\ spawned[3].unit = << "a" >>


(***************************************************************************)
(* Properties of repeated resolution and of the parser lock                *)
(***************************************************************************)
\* C13: a second call of generate_sources_for on the same files returns the
\* same set as the first, whatever order the declarations of each file were
\* visited in.
C13_ResolveIdempotent ==
    (rpc = "done" /\ prev # NoneOpt) => result[1] = prev[1].set

C13_Witness ==
    /\ rpc = "done"
    /\ prev # NoneOpt
    /\ map[root] # NoneOpt
    /\ Len(map[root][1]) = 2
    /\ map[root] # prev[1].map[root]
    /\ Cardinality(result[1]) = 2

\* C15: the parser is locked only during the parse of the innermost call of
\* generate_sources_inner, so by at most one parse; it is free whenever a
\* call is about to lock it and whenever the resolver recurses or returns.
C15_ParserLock ==
    /\ lock => (rpc = "inner" /\ stack # <<>> /\ Top.st = "parse")
    /\ Cardinality({ i \in 1..Len(stack) : stack[i].st = "parse" }) <= 1
    /\ \A i \in 1..Len(stack) : stack[i].st \in { "lock", "parse" } => i = Len(stack)
    /\ (stack # <<>> /\ Top.st = "lock") => ~lock

C15_Witness ==
    /\ lock
    /\ Len(stack) = 2
    /\ Top.st = "parse"
    /\ stack[1].st = "loop"

(***************************************************************************)
(* Properties of the viewer process and of the file list                   *)
(***************************************************************************)
\* C14: the viewer is detached: while the viewer process runs, the Wave
\* command is over, it does not wait for the viewer to exit.
C14_ViewerDetached ==
    "gtkwave" \in running => pc = "done"

\* C18: no stage runs and no subprocess is spawned for a target whose file
\* list is empty.
C18_FilesNonEmpty ==
    (invoked # <<>> \/ spawned # <<>>) => files # <<>>

(***************************************************************************)
(* Properties of the relocation of the catalog                             *)
(***************************************************************************)
CatalogWritten(ops) ==
    \E i \in 1..Len(ops) : ops[i] = "write build/root/work-obj93.cf"

\* C16: the rewritten catalog is written to build/root/ before the original
\* is deleted: a deletion follows a write of the rewritten text in the same
\* relocation; after a successful relocation the catalog is in build/root/
\* and not in the working directory; when the catalog is missing or the
\* write did not happen the relocation fails fatally and the original is
\* left as it was.
C16_CatalogWriteBeforeDelete ==
    [][pc = "cleanup" =>
        LET new == SubSeq(fsOps', Len(fsOps) + 1, Len(fsOps'))
        IN  /\ cwdCatalog' # cwdCatalog =>
                 /\ CatalogWritten(new)
                 /\ new[Len(new)] = "remove work-obj93.cf"
                 /\ new[Len(new) - 1] = "write build/root/work-obj93.cf"
                 /\ buildCatalog' = rewrite_catalog(cwdCatalog)
            /\ pc' = "move_artifacts" =>
                 /\ cwdCatalog # NoFile
                 /\ cwdCatalog' = NoFile
                 /\ buildCatalog' = rewrite_catalog(cwdCatalog)
                 /\ buildCatalog' # NoFile
            /\ (cwdCatalog = NoFile \/ ~CatalogWritten(new)) =>
                 /\ pc' = "failed"
                 /\ err' # NoErr
                 /\ cwdCatalog' = cwdCatalog
                 /\ buildCatalog' = buildCatalog]_vars

C16_Witness ==
    /\ pc = "move_artifacts"
    /\ cwdCatalog = NoFile
    /\ buildCatalog = PREFIX \o UpUp \o <<"a">>
    /\ fsOps = << "mkdir build/root/", "write build/root/work-obj93.cf",
                  "remove work-obj93.cf" >>

(***************************************************************************)
(* Properties of the relocation of the objects                             *)
(***************************************************************************)
\* the objects of all the files of the list were left by ghdl
AllProduced == StemsOf(files) \subseteq cwdObj \cup buildObj

C19_OneProcessAtATime ==
    /\ Cardinality(running) <= 1
    /\ pc \in { "cleanup", "move_artifacts", "move_loop" } => running = {}
    /\ pc \in { "start", "analyze", "elaborate", "execute", "wave", "done" } => running = {}
    /\ pc = "analyze_wait" => running = { "ghdl -a" }
    /\ pc = "sw_vers_wait" => running = { "sw_vers" }
    /\ pc = "elaborate_wait" => running = { "ghdl -e" }
    /\ pc = "execute_wait" => running = { "ghdl -r" }
    /\ pc = "viewer_wait" => running = { "gtkwave" }

C19_Witness ==
    /\ pc = "execute_wait"
    /\ running = { "ghdl -r" }
    /\ Len(spawned) = 3
    /\ buildObj # {}

(***************************************************************************)
(* Properties of the waveform file name                                    *)
(***************************************************************************)
\* the --vcd value when given, otherwise the vcd-name of the target
WaveformName == IF cliVcd # NoneOpt THEN cliVcd ELSE vcd_output_name

RunSpawns == { i \in 1..Len(spawned) : spawned[i].prog = "ghdl" /\ spawned[i].mode = "-r" }

ViewerSpawns == { i \in 1..Len(spawned) : spawned[i].prog = "gtkwave" }

\* Execute is given --vcd=<name> for the waveform name, and no flag when
\* there is no name
ExecuteFlag ==
    \A i \in RunSpawns :
        spawned[i].extra = IF WaveformName = NoneOpt THEN <<>>
                           ELSE << "--vcd=" \o WaveformName[1] >>

\* C20 as stated: the waveform name is the --vcd value when given and
\* otherwise the vcd-name of the target; the viewer is given
\* build/root/<name> for the name that Execute was given as --vcd=<name>;
\* with no name Execute gets no waveform flag.
C20_WaveformNameThreading ==
    /\ ExecuteFlag
    /\ \A i \in ViewerSpawns :
         /\ WaveformName # NoneOpt
         /\ spawned[i].extra = << "build/root/" \o WaveformName[1] >>
         /\ \E j \in RunSpawns : j < i /\ spawned[j].extra = << "--vcd=" \o WaveformName[1] >>

\* C20, amended: as above, but the viewer is given build/root/<name> when
\* the name is relative and <name> itself when the name is an absolute path.
C20_WaveformNameThreadingAbsolute ==
    /\ ExecuteFlag
    /\ \A i \in ViewerSpawns :
         /\ WaveformName # NoneOpt
         /\ spawned[i].extra = << IF WaveformName[1] \in VcdAbs
                                  THEN WaveformName[1]
                                  ELSE "build/root/" \o WaveformName[1] >>
         /\ \E j \in RunSpawns : j < i /\ spawned[j].extra = << "--vcd=" \o WaveformName[1] >>

C20_Witness ==
    /\ cmd = "Wave"
    /\ cliVcd = << "/abs.vcd" >>
    /\ vcd_output_name = << "t.vcd" >>
    /\ Len(spawned) = 4
    /\ spawned[3].extra = << "--vcd=/abs.vcd" >>
    /\ spawned[4].extra = << "/abs.vcd" >>

====
